---- MODULE Spec2Model ----
(***************************************************************************)
(* PlayerController (src/src/player/PlayerController.js): the per-tick     *)
(* locomotion of the rider.  update(dt) = handleInput(dt), then            *)
(* handlePhysics(dt), then the roll blend.                                 *)
(*                                                                         *)
(* Numbers.  The program computes in IEEE doubles.  Here every real        *)
(* quantity (seconds, metres, metres/second, radians, charge) is a         *)
(* fixed-point integer counting 1/Unit; products and quotients are rounded *)
(* toward zero.  The inputs are chosen on a grid (dt a multiple of 0.05 s) *)
(* on which the jump arithmetic is exact.                                  *)
(***************************************************************************)
EXTENDS Integers, Sequences, FiniteSets

Unit == 10 * 1000

----------------------------------------------------------------------------
(* Fixed-point arithmetic (the double operations of the source)            *)

Abs(x) == IF x < 0 THEN -x ELSE x

Max(a, b) == IF a >= b THEN a ELSE b

Min(a, b) == IF a <= b THEN a ELSE b

\* a / n for an integer n > 0, rounded toward zero
TDiv(a, n) == IF a < 0 THEN -((-a) \div n) ELSE a \div n

\* the product of two fixed-point numbers; the four partial products keep
\* every intermediate value inside 32 bits
FMulParts(a1, a0, b1, b0) == a1 * b1 * Unit + a1 * b0 + a0 * b1 + (a0 * b0) \div Unit

FMulAbs(A, B) == FMulParts(A \div Unit, A % Unit, B \div Unit, B % Unit)

FMul(a, b) ==
    IF (a < 0) = (b < 0) THEN FMulAbs(Abs(a), Abs(b)) ELSE -FMulAbs(Abs(a), Abs(b))

\* the quotient of two fixed-point numbers, b # 0; large operands are scaled
\* down together first
FDivAbs(A, B) == (A \div B) * Unit + ((A % B) * Unit) \div B

FDivOn(A, B, k) == FDivAbs(A \div k, B \div k)

FDiv(a, b) ==
    IF (a < 0) = (b < 0) THEN FDivOn(Abs(a), Abs(b), Abs(b) \div (10 * Unit) + 1)
    ELSE -FDivOn(Abs(a), Abs(b), Abs(b) \div (10 * Unit) + 1)

RECURSIVE SqrtIter(_, _)
SqrtIter(n, x) ==
    LET y == (x + n \div x) \div 2
    IN  IF y >= x THEN x ELSE SqrtIter(n, y)

\* floor of the square root of an integer n >= 0
ISqrt(n) == IF n < 2 THEN n ELSE SqrtIter(n, Min(n, 46340))

\* Math.sin of an angle, by its Taylor polynomial on [-pi/2, pi/2]
Pi == (355 * Unit) \div 113

\* x - x^3/3! + x^5/5! - x^7/7!, in Horner form; x2 is x squared
SinPoly(x, x2) ==
    x - TDiv(FMul(FMul(x, x2),
                  Unit - TDiv(FMul(x2, Unit - TDiv(x2, 42)), 20)), 6)

\* the angle r of [0, 2 pi) folded into [-pi/2, pi/2], the sine kept
Fold(r) ==
    IF r > Pi + Pi \div 2 THEN r - 2 * Pi
    ELSE IF r > Pi \div 2 THEN Pi - r
    ELSE r

SinFolded(x) == SinPoly(x, FMul(x, x))

Sin(h) == SinFolded(Fold(h % (2 * Pi)))

Cos(h) == Sin(h + Pi \div 2)

\* THREE.MathUtils.lerp(x, y, t) = (1 - t) * x + t * y
Lerp(x, y, t) == FMul(Unit - t, x) + FMul(t, y)

----------------------------------------------------------------------------
(* THREE.Vector3                                                           *)

Vec(x, y, z) == [x |-> x, y |-> y, z |-> z]

VAdd(u, v) == Vec(u.x + v.x, u.y + v.y, u.z + v.z)

VSub(u, v) == Vec(u.x - v.x, u.y - v.y, u.z - v.z)

\* Vector3.multiplyScalar
VScale(v, k) == Vec(FMul(v.x, k), FMul(v.y, k), FMul(v.z, k))

\* Vector3.divideScalar
VDivScalar(v, k) == Vec(FDiv(v.x, k), FDiv(v.y, k), FDiv(v.z, k))

\* Vector3.dot
VDot(u, v) == FMul(u.x, v.x) + FMul(u.y, v.y) + FMul(u.z, v.z)

\* Vector3.length; a long vector is measured on a coarser grid so that the
\* sum of squares stays inside 32 bits
Square(x) == x * x

VLengthOn(v, k) ==
    k * ISqrt(Square(Abs(v.x) \div k) + Square(Abs(v.y) \div k) + Square(Abs(v.z) \div k))

VLength(v) == VLengthOn(v, Max(Abs(v.x), Max(Abs(v.y), Abs(v.z))) \div (2 * Unit) + 1)

VDivOrKeep(v, len) == IF len = 0 THEN v ELSE VDivScalar(v, len)

\* Vector3.normalize = divideScalar(length() || 1)
VNormalize(v) == VDivOrKeep(v, VLength(v))

\* Vector3.lerp(v, alpha): this += (v - this) * alpha
VLerp(u, v, alpha) == VAdd(u, VScale(VSub(v, u), alpha))

Up == Vec(0, Unit, 0)

----------------------------------------------------------------------------
(* The constructor's constants                                             *)

gravity == 30 * Unit

friction == Unit \div 5

turnSpeed == 3 * Unit

maxSpeed == 60 * Unit

jumpForce == 10 * Unit

maxJumpCharge == Unit

\* the coyote-time window of handleInput: airTime < 0.25
graceTime == Unit \div 4

\* handlePhysics: const snapDistance = 0.5
snapDistance == Unit \div 2

\* handlePhysics: let groundHeight = -1000
noGroundHeight == -1000 * Unit

\* handlePhysics: rayOrigin.y += 3.0
rayLift == 3 * Unit

----------------------------------------------------------------------------
(* handleInput(dt).  s is the controller (its fields, and the calls it has *)
(* made to the trick system during this tick), a the input.actions         *)
(* snapshot, dt the step.                                                  *)

B2N(b) == IF b THEN 1 ELSE 0

\* TurnStep with the spin keys rotating on their own in the air
TurnStepSpinKeysAlone(s, a, dt) ==
    LET isFlipping == a.forward \/ a.backward
        isSpinning == a.left \/ a.right \/ a.spinLeft \/ a.spinRight
        lr         == B2N(a.left) - B2N(a.right)
        spin       == IF a.spinLeft THEN 2 ELSE IF a.spinRight THEN -2 ELSE 0
        turn       == IF s.grounded THEN lr
                      ELSE IF isFlipping THEN 0
                      ELSE IF isSpinning THEN (lr + spin) * 2
                      ELSE 0
        delta      == FMul(turn * turnSpeed, dt)
    IN  [s EXCEPT !.rotationDelta = delta, !.heading = s.heading + delta]

\* lines 118-150: turning on the ground, spinning in the air
TurnStep(s, a, dt) ==
    LET isFlipping == a.forward \/ a.backward
        isSpinning == a.left \/ a.right
        lr         == B2N(a.left) - B2N(a.right)
        spin       == IF a.spinLeft THEN 2 ELSE IF a.spinRight THEN -2 ELSE 0
        turn       == IF s.grounded THEN lr
                      ELSE IF isFlipping THEN 0
                      ELSE IF isSpinning THEN (lr + spin) * 2
                      ELSE 0
        delta      == FMul(turn * turnSpeed, dt)
    IN  [s EXCEPT !.rotationDelta = delta, !.heading = s.heading + delta]

\* FlipStep with the two flip keys exchanged
FlipStepExchanged(s, a, dt) ==
    LET flipSpeed == 5 * Unit
        decayed   == Lerp(s.pitch, 0, 10 * dt)
    IN  IF ~s.grounded
        THEN IF a.backward THEN [s EXCEPT !.pitch = s.pitch - FMul(flipSpeed, dt)]
             ELSE IF a.forward THEN [s EXCEPT !.pitch = s.pitch + FMul(flipSpeed, dt)]
             ELSE s
        ELSE [s EXCEPT !.pitch = IF Abs(decayed) < Unit \div 10 THEN 0 ELSE decayed]

\* lines 152-164: flips in the air, pitch reset on the ground
FlipStep(s, a, dt) ==
    LET flipSpeed == 5 * Unit
        decayed   == Lerp(s.pitch, 0, 10 * dt)
    IN  IF ~s.grounded
        THEN IF a.forward THEN [s EXCEPT !.pitch = s.pitch - FMul(flipSpeed, dt)]
             ELSE IF a.backward THEN [s EXCEPT !.pitch = s.pitch + FMul(flipSpeed, dt)]
             ELSE s
        ELSE [s EXCEPT !.pitch = IF Abs(decayed) < Unit \div 10 THEN 0 ELSE decayed]

\* lines 166-168: trickSystem.update(dt, rotationDelta)
TrickUpdateStep(s, dt) ==
    IF ~s.grounded
    THEN [s EXCEPT !.updateCalls = s.updateCalls + 1, !.updateArg = s.rotationDelta]
    ELSE s

\* body.scale.y = v, when a body is there (if (this.body) ...)
SetScaleY(s, v) == IF s.body # "none" THEN [s EXCEPT !.bodyScaleY = v] ELSE s

\* Launch with the falling velocity.y left in place (line 185 dropped)
LaunchNoZero(s) ==
    LET finalForce == FMul(jumpForce, (8 * Unit) \div 10 + FMul(s.jumpCharge, (15 * Unit) \div 10))
    IN  [s EXCEPT !.grounded = FALSE,
                  !.airTime = Unit,
                  !.velocity.y = s.velocity.y + finalForce,
                  !.jumpCharge = 0,
                  !.bodyScaleY = IF s.body # "none" THEN Unit ELSE s.bodyScaleY,
                  !.startJumpCalls = s.startJumpCalls + 1]

\* Launch with airTime left as it was (line 178 dropped)
LaunchKeepAirTime(s) ==
    LET finalForce == FMul(jumpForce, (8 * Unit) \div 10 + FMul(s.jumpCharge, (15 * Unit) \div 10))
        vy0        == IF s.velocity.y < 0 THEN 0 ELSE s.velocity.y
    IN  SetScaleY([s EXCEPT !.grounded = FALSE,
                            !.velocity.y = vy0 + finalForce,
                            !.jumpCharge = 0,
                            !.startJumpCalls = s.startJumpCalls + 1], Unit)

\* lines 176-191: the release of a charged jump
Launch(s) ==
    LET finalForce == FMul(jumpForce, (8 * Unit) \div 10 + FMul(s.jumpCharge, (15 * Unit) \div 10))
        vy0        == IF s.velocity.y < 0 THEN 0 ELSE s.velocity.y
    IN  SetScaleY([s EXCEPT !.grounded = FALSE,
                            !.airTime = Unit,
                            !.velocity.y = vy0 + finalForce,
                            !.jumpCharge = 0,
                            !.startJumpCalls = s.startJumpCalls + 1], Unit)

\* JumpStep with the charge not capped (Math.min of line 173 dropped)
JumpStepNoCap(s, a, dt) ==
    IF s.grounded \/ s.airTime < graceTime
    THEN IF a.jump
         THEN SetScaleY([s EXCEPT !.jumpCharge = s.jumpCharge + FMul(dt, (15 * Unit) \div 10)],
                        Unit - FMul(s.jumpCharge + FMul(dt, (15 * Unit) \div 10), (4 * Unit) \div 10))
         ELSE SetScaleY(IF s.jumpCharge > 0 THEN Launch(s) ELSE s, Unit)
    ELSE IF s.airTime > graceTime
         THEN SetScaleY([s EXCEPT !.jumpCharge = 0], Unit)
         ELSE s

\* JumpStep with a charge that runs out of the grace window released, not
\* cleared
JumpStepLaunchOnExpiry(s, a, dt) ==
    IF s.grounded \/ s.airTime < graceTime
    THEN IF a.jump
         THEN LET c == Min(s.jumpCharge + FMul(dt, (15 * Unit) \div 10), maxJumpCharge)
              IN  SetScaleY([s EXCEPT !.jumpCharge = c], Unit - FMul(c, (4 * Unit) \div 10))
         ELSE SetScaleY(IF s.jumpCharge > 0 THEN Launch(s) ELSE s, Unit)
    ELSE IF s.airTime > graceTime
         THEN SetScaleY(IF s.jumpCharge > 0 THEN Launch(s) ELSE s, Unit)
         ELSE s

\* JumpStep with the charge growing by dt, not by 1.5 dt
JumpStepUnitRate(s, a, dt) ==
    IF s.grounded \/ s.airTime < graceTime
    THEN IF a.jump
         THEN LET c == Min(s.jumpCharge + dt, maxJumpCharge)
              IN  SetScaleY([s EXCEPT !.jumpCharge = c], Unit - FMul(c, (4 * Unit) \div 10))
         ELSE SetScaleY(IF s.jumpCharge > 0 THEN Launch(s) ELSE s, Unit)
    ELSE IF s.airTime > graceTime
         THEN SetScaleY([s EXCEPT !.jumpCharge = 0], Unit)
         ELSE s

\* JumpStep with the charge under the test of the squash: if (this.body)
\* guarding both statements of lines 173-174
JumpStepNeedsBody(s, a, dt) ==
    IF s.grounded \/ s.airTime < graceTime
    THEN IF a.jump
         THEN LET c == Min(s.jumpCharge + FMul(dt, (15 * Unit) \div 10), maxJumpCharge)
              IN  IF s.body # "none"
                  THEN [s EXCEPT !.jumpCharge = c,
                                 !.bodyScaleY = Unit - FMul(c, (4 * Unit) \div 10)]
                  ELSE s
         ELSE SetScaleY(IF s.jumpCharge > 0 THEN Launch(s) ELSE s, Unit)
    ELSE IF s.airTime > graceTime
         THEN SetScaleY([s EXCEPT !.jumpCharge = 0], Unit)
         ELSE s

\* JumpStep with no test of the regime: the charge and the release work
\* anywhere in the air (the condition of line 171 dropped)
JumpStepAnywhere(s, a, dt) ==
    IF a.jump
    THEN LET c == Min(s.jumpCharge + FMul(dt, (15 * Unit) \div 10), maxJumpCharge)
         IN  SetScaleY([s EXCEPT !.jumpCharge = c], Unit - FMul(c, (4 * Unit) \div 10))
    ELSE SetScaleY(IF s.jumpCharge > 0 THEN Launch(s) ELSE s, Unit)

\* lines 170-199: jump charge and release, with coyote time
JumpStep(s, a, dt) ==
    IF s.grounded \/ s.airTime < graceTime
    THEN IF a.jump
         THEN LET c == Min(s.jumpCharge + FMul(dt, (15 * Unit) \div 10), maxJumpCharge)
              IN  SetScaleY([s EXCEPT !.jumpCharge = c], Unit - FMul(c, (4 * Unit) \div 10))
         ELSE SetScaleY(IF s.jumpCharge > 0 THEN Launch(s) ELSE s, Unit)
    ELSE IF s.airTime > graceTime
         THEN SetScaleY([s EXCEPT !.jumpCharge = 0], Unit)
         ELSE s

\* handleInput with the trick system told after the jump step, not before
HandleInputUpdateLast(s, a, dt) ==
    TrickUpdateStep(JumpStep(FlipStep(TurnStep(s, a, dt), a, dt), a, dt), dt)

\* lines 117-200
HandleInput(s, a, dt) ==
    JumpStep(TrickUpdateStep(FlipStep(TurnStep(s, a, dt), a, dt), dt), a, dt)

----------------------------------------------------------------------------
(* handlePhysics(dt).  hits is what the five downward rays return, in the  *)
(* order of the offsets: [hit |-> FALSE], or the first intersection's      *)
(* point.y and its unit world normal.                                      *)

RECURSIVE ProbeLoop(_, _, _)
\* lines 214-237: the accumulation over the five rays
ProbeLoop(hits, i, acc) ==
    IF i > Len(hits) THEN acc
    ELSE ProbeLoop(hits, i + 1,
            IF hits[i].hit
            THEN [avgHeight |-> IF acc.validHits = 0 THEN hits[i].y
                                ELSE acc.avgHeight + hits[i].y,
                  avgNormal |-> VAdd(acc.avgNormal, hits[i].normal),
                  validHits |-> acc.validHits + 1]
            ELSE acc)

\* lines 214-247: groundHeight and groundNormal
\* lines 239-247, for the sums acc of the loop
GroundOf(acc) ==
    IF acc.validHits > 0
    THEN [validHits    |-> acc.validHits,
          groundHeight |-> IF acc.validHits > 1 THEN TDiv(acc.avgHeight, acc.validHits)
                           ELSE acc.avgHeight,
          groundNormal |-> VNormalize(Vec(TDiv(acc.avgNormal.x, acc.validHits),
                                          TDiv(acc.avgNormal.y, acc.validHits),
                                          TDiv(acc.avgNormal.z, acc.validHits)))]
    ELSE [validHits |-> 0, groundHeight |-> noGroundHeight, groundNormal |-> Up]

ProbeGround(hits) ==
    GroundOf(ProbeLoop(hits, 1, [avgHeight |-> 0, avgNormal |-> Vec(0, 0, 0), validHits |-> 0]))

\* GroundContact that keeps a grounded rider on ground in reach, whatever
\* velocity.y is
GroundContactSticky(s, g) ==
    /\ s.position.y - g.groundHeight <= snapDistance + Unit \div 2
    /\ s.velocity.y <= Unit \div 10 \/ s.grounded

\* GroundContact on the distance alone (the velocity.y test dropped)
GroundContactAnySpeed(s, g) ==
    s.position.y - g.groundHeight <= snapDistance + Unit \div 2

\* line 253: distToGround <= snapDistance + 0.5 && this.velocity.y <= 0.1
GroundContact(s, g) ==
    /\ s.position.y - g.groundHeight <= snapDistance + Unit \div 2
    /\ s.velocity.y <= Unit \div 10

\* LandStep with the roll left as it was (line 262 dropped)
LandStepKeepRoll(s, trick) ==
    IF ~s.grounded
    THEN LET scored == IF trick.points > 0
                       THEN [s EXCEPT !.score = s.score + trick.points,
                                      !.lastTruncName = trick.name]
                       ELSE s
         IN  [scored EXCEPT !.landCalls = s.landCalls + 1, !.pitch = 0]
    ELSE s

\* LandStep with the name recorded outside the points test
LandStepAlwaysNames(s, trick) ==
    IF ~s.grounded
    THEN LET scored == IF trick.points > 0
                       THEN [s EXCEPT !.score = s.score + trick.points]
                       ELSE s
         IN  [scored EXCEPT !.lastTruncName = trick.name,
                            !.landCalls = s.landCalls + 1, !.pitch = 0, !.roll = 0]
    ELSE s

\* LandStep with the score set to the trick's points, not raised by them
LandStepOverwrite(s, trick) ==
    IF ~s.grounded
    THEN LET scored == IF trick.points > 0
                       THEN [s EXCEPT !.score = trick.points,
                                      !.lastTruncName = trick.name]
                       ELSE s
         IN  [scored EXCEPT !.landCalls = s.landCalls + 1, !.pitch = 0, !.roll = 0]
    ELSE s

\* LandStep with the pitch left as it was (line 261 dropped)
LandStepKeepPitch(s, trick) ==
    IF ~s.grounded
    THEN LET scored == IF trick.points > 0
                       THEN [s EXCEPT !.score = s.score + trick.points,
                                      !.lastTruncName = trick.name]
                       ELSE s
         IN  [scored EXCEPT !.landCalls = s.landCalls + 1, !.roll = 0]
    ELSE s

\* lines 254-263: the landing; trick is what trickSystem.land() returns
LandStep(s, trick) ==
    IF ~s.grounded
    THEN LET scored == IF trick.points > 0
                       THEN [s EXCEPT !.score = s.score + trick.points,
                                      !.lastTruncName = trick.name]
                       ELSE s
         IN  [scored EXCEPT !.landCalls = s.landCalls + 1, !.pitch = 0, !.roll = 0]
    ELSE s

\* new Vector3(0, 0, -1).applyAxisAngle(Y, heading)
Forward(heading) == Vec(-Sin(heading), 0, -Cos(heading))

\* u without its component along the unit vector n
Tangent(u, n) == VSub(u, VScale(n, VDot(u, n)))

\* lines 270-272: gravity along the slope
SlopeGravity(v, n, dt) ==
    VAdd(v, VScale(Tangent(Vec(0, -Unit, 0), n), FMul(gravity, dt)))

\* lines 274-276: friction, sharper while backward (carve) is held
Friction(v, a, dt) ==
    VScale(v, Unit - FMul(IF a.backward THEN 5 * Unit ELSE friction, dt))

\* line 285: forward, or its opposite when riding switch
TargetFacing(velDir, forward) ==
    IF VDot(velDir, forward) >= 0 THEN forward ELSE VSub(Vec(0, 0, 0), forward)

\* lines 287-289, for a rider moving at speed along velDir
Grip(velDir, speed, targetFacing, n, dt) ==
    VScale(VLerp(velDir, VNormalize(Tangent(targetFacing, n)), 8 * dt), speed)

SteerAt(v, speed, heading, n, dt) ==
    IF speed > Unit \div 10
    THEN Grip(VDivOrKeep(v, speed), speed,
              TargetFacing(VDivOrKeep(v, speed), Forward(heading)), n, dt)
    ELSE v

\* lines 278-290: the blend of the velocity's direction toward the board's
Steer(v, heading, n, dt) == SteerAt(v, VLength(v), heading, n, dt)

\* line 292
ClampSpeed(v) ==
    IF VLength(v) > maxSpeed THEN VScale(VNormalize(v), maxSpeed) ELSE v

\* lines 294-295: no velocity into the ground
RemoveNormal(v, vn, n) == IF vn < 0 THEN VSub(v, VScale(n, vn)) ELSE v

LeaveGround(v, n) == RemoveNormal(v, VDot(v, n), n)

\* lines 265-295: the ground branch
GroundPhysics(s, a, dt, g) ==
    [s EXCEPT !.grounded = TRUE,
              !.airTime = 0,
              !.position.y = g.groundHeight,
              !.velocity = LeaveGround(ClampSpeed(Steer(Friction(
                               SlopeGravity(s.velocity, g.groundNormal, dt), a, dt),
                               s.heading, g.groundNormal, dt)), g.groundNormal)]

\* lines 307-318: the steering impulse of a flip
AirSteer(v, a, heading, dt) ==
    LET steerDir == IF a.right THEN Vec(Cos(heading), 0, -Sin(heading))
                    ELSE Vec(-Cos(heading), 0, Sin(heading))
        airSteerSpeed == 15 * Unit
    IN  IF (a.forward \/ a.backward) /\ (a.left \/ a.right)
        THEN VAdd(v, VScale(steerDir, FMul(airSteerSpeed, dt)))
        ELSE v

\* Fall with gravity not scaled by dt
FallUnscaled(v, dt) ==
    VScale([v EXCEPT !.y = v.y - gravity], Unit - FMul((5 * Unit) \div 100, dt))

\* lines 302-305: gravity, then drag
Fall(v, dt) ==
    VScale([v EXCEPT !.y = v.y - FMul(gravity, dt)], Unit - FMul((5 * Unit) \div 100, dt))

\* AirPhysics with airTime set to dt, not raised by it
AirPhysicsRestart(s, a, dt) ==
    [s EXCEPT !.grounded = FALSE,
              !.airTime = dt,
              !.velocity = AirSteer(Fall(s.velocity, dt), a, s.heading, dt)]

\* lines 297-319: the air branch
AirPhysics(s, a, dt) ==
    [s EXCEPT !.grounded = FALSE,
              !.airTime = s.airTime + dt,
              !.velocity = AirSteer(Fall(s.velocity, dt), a, s.heading, dt)]

\* line 321: this.position.add(this.velocity.clone().multiplyScalar(dt))
Integrate(s, dt) == [s EXCEPT !.position = VAdd(s.position, VScale(s.velocity, dt))]

\* lines 202-322
PhysicsOn(s, a, dt, g, trick) ==
    Integrate(IF GroundContact(s, g)
              THEN GroundPhysics(LandStep(s, trick), a, dt, g)
              ELSE AirPhysics(s, a, dt), dt)

HandlePhysics(s, a, dt, hits, trick) == PhysicsOn(s, a, dt, ProbeGround(hits), trick)

\* lines 105-113 of update: the lean on the ground, the decay in the air
RollStep(s, a, dt) ==
    LET lean == B2N(a.left) - B2N(a.right)
        targetLean == (lean * Unit) \div 2
    IN  IF s.grounded
        THEN [s EXCEPT !.roll = Lerp(s.roll, targetLean, 5 * dt)]
        ELSE [s EXCEPT !.roll = Lerp(s.roll, 0, 2 * dt)]

----------------------------------------------------------------------------
(* The state                                                               *)

VARIABLES
    position, velocity, heading, pitch, roll, grounded, airTime,
    jumpCharge, score, lastTruncName,   \* the controller's fields
    body, bodyScaleY,                   \* this.body ("none" until the loader calls back) and its scale.y
    ticks,                              \* the number of update(dt) calls so far
    calls,                              \* the startJump() and land() calls the trick system
                                        \* has received, in order
    held,                               \* the number of ticks in a row, up to the last one,
                                        \* that started grounded with jump held, the first
                                        \* of them starting with jumpCharge = 0
    last                                \* the last update(dt) call: its inputs, the controller
                                        \* before it and after its handleInput, and its calls
                                        \* to the trick system

vars == <<position, velocity, heading, pitch, roll, grounded, airTime,
          jumpCharge, score, lastTruncName, body, bodyScaleY, ticks, calls, held, last>>

\* the controller as one record, with the calls of the running tick at zero
Self ==
    [position |-> position, velocity |-> velocity, heading |-> heading,
     pitch |-> pitch, roll |-> roll, grounded |-> grounded, airTime |-> airTime,
     jumpCharge |-> jumpCharge, score |-> score, lastTruncName |-> lastTruncName,
     body |-> body, bodyScaleY |-> bodyScaleY,
     rotationDelta |-> 0, updateCalls |-> 0, updateArg |-> 0,
     startJumpCalls |-> 0, landCalls |-> 0]

----------------------------------------------------------------------------
(* The inputs of a tick                                                    *)

Keys == {"forward", "backward", "left", "right", "spinLeft", "spinRight", "jump"}

\* input.actions with exactly the keys of ks held
Actions(ks) == [k \in Keys |-> k \in ks]

Miss == [hit |-> FALSE, dist |-> 0, normal |-> Up]

\* a terrain seen from the rider: the first k rays hit, d below position.y,
\* a face of normal n
Terrain(k, d, n) ==
    [i \in 1..5 |-> IF i <= k THEN [hit |-> TRUE, dist |-> d, normal |-> n] ELSE Miss]

\* a face tilted toward +x
Slope == Vec((6 * Unit) \div 10, (8 * Unit) \div 10, 0)

\* what the raycaster returns for the rider at height y over terrain t
Raycast(y, t) ==
    [i \in 1..5 |-> IF t[i].hit
                    THEN [hit |-> TRUE, y |-> y - t[i].dist, normal |-> t[i].normal]
                    ELSE [hit |-> FALSE]]

\* a ray starts rayLift above the rider and looks down: it sees nothing above
Visible(t) == \A i \in 1..5 : t[i].hit => t[i].dist >= -rayLift

\* trickSystem.land(): {points, name}
TrickResults ==
    { [points |-> 0, name |-> ""], [points |-> 0, name |-> "Nothing"],
      [points |-> 100, name |-> "360"], [points |-> 250, name |-> "Backflip"] }

NoTrick == [points |-> 0, name |-> ""]

----------------------------------------------------------------------------
(* The operations                                                          *)

Init ==
    /\ position = Vec(0, 10 * Unit, 40 * Unit)
    /\ velocity = Vec(0, 0, 0)
    /\ heading = 0
    /\ pitch = 0
    /\ roll = 0
    /\ grounded = FALSE
    /\ airTime = 0
    /\ jumpCharge = 0
    /\ score = 0
    /\ lastTruncName = ""
    /\ body = "none"
    /\ bodyScaleY = 0
    /\ ticks = 0
    /\ calls = <<>>
    /\ held = 0
    /\ last = [dt |-> 0, actions |-> Actions({}), hits |-> Raycast(0, Terrain(0, 0, Up)),
               trick |-> NoTrick, pre |-> Self, mid |-> Self, phys |-> Self]

\* lines 253-255: trickSystem.land() is asked
Lands(s, g) == GroundContact(s, g) /\ ~s.grounded

\* lines 190 and 255: what the trick system is called with during a tick that
\* leaves the controller as s, startJump() (handleInput) before land()
\* (handlePhysics)
TrickCalls(s) ==
    (IF s.startJumpCalls > 0 THEN <<"startJump">> ELSE <<>>)
        \o (IF s.landCalls > 0 THEN <<"land">> ELSE <<>>)

\* the ticks in a row that charge a jump from the ground, this one (which
\* started as pre, with actions a) included
HeldTicks(pre, a) ==
    IF pre.grounded /\ a.jump /\ (held > 0 \/ pre.jumpCharge = 0) THEN held + 1 ELSE 0

\* update(dt), lines 93-115, with input.actions = a and the terrain t under
\* the rider; trick is what trickSystem.land() returns when it is asked
Update(dt, a, t) ==
    \E pre \in {Self}, hits \in {Raycast(position.y, t)} :
    \E mid \in {HandleInput(pre, a, dt)} :
    \E trick \in IF Lands(mid, ProbeGround(hits)) THEN TrickResults ELSE {NoTrick} :
    \E phys \in {HandlePhysics(mid, a, dt, hits, trick)} :
    \E post \in {RollStep(phys, a, dt)} :
        /\ Visible(t)
        /\ position' = post.position
        /\ velocity' = post.velocity
        /\ heading' = post.heading
        /\ pitch' = post.pitch
        /\ roll' = post.roll
        /\ grounded' = post.grounded
        /\ airTime' = post.airTime
        /\ jumpCharge' = post.jumpCharge
        /\ score' = post.score
        /\ lastTruncName' = post.lastTruncName
        /\ bodyScaleY' = post.bodyScaleY
        /\ ticks' = ticks + 1
        /\ calls' = calls \o TrickCalls(phys)
        /\ held' = HeldTicks(pre, a)
        /\ last' = [dt |-> dt, actions |-> a, hits |-> hits, trick |-> trick,
                    pre |-> pre, mid |-> mid, phys |-> phys]
        /\ UNCHANGED body

\* lines 55-73: the loader's success callback
OnLoad ==
    /\ body = "none"
    /\ body' = "model"
    /\ bodyScaleY' = Unit \div 2
    /\ UNCHANGED <<position, velocity, heading, pitch, roll, grounded, airTime,
                   jumpCharge, score, lastTruncName, ticks, calls, held, last>>

\* lines 74-81: the loader's error callback
OnError ==
    /\ body = "none"
    /\ body' = "placeholder"
    /\ bodyScaleY' = Unit
    /\ UNCHANGED <<position, velocity, heading, pitch, roll, grounded, airTime,
                   jumpCharge, score, lastTruncName, ticks, calls, held, last>>

----------------------------------------------------------------------------
(* The specifications.  Every one starts from the constructor's state and  *)
(* runs whole ticks; they differ in the inputs they draw and in how many   *)
(* ticks they run.                                                         *)

\* one update(dt), its inputs drawn from D, S and T, while fewer than n ran
Run(D, S, T, n) ==
    /\ ticks < n
    /\ \E dt \in D, a \in S, t \in T : Update(dt, a, t)

MaxTicks == 2

\* a frame that took no time, a quarter of a second, two seconds
Dts == {0, Unit \div 4, 2 * Unit}

Snapshots == { Actions({}), Actions({"jump"}), Actions({"left"}), Actions({"forward"}),
               Actions({"jump", "backward", "right"}) }

\* no ground in reach; flat ground exactly snapDistance + 0.5 below the rider;
\* the edge of a slope, two rays hitting at different heights
Terrains == { Terrain(0, 0, Up), Terrain(5, Unit, Up),
              <<[hit |-> TRUE, dist |-> Unit \div 5, normal |-> Up],
                [hit |-> TRUE, dist |-> (3 * Unit) \div 5, normal |-> Slope],
                Miss, Miss, Miss>> }

Tick == Run(Dts, Snapshots, Terrains, MaxTicks)

Next == Tick

\* a few ticks over a wide choice of inputs
Spec == Init /\ [][Next]_vars

MaxRideTicks == 3

RideDts == {Unit \div 4, 2 * Unit}

RideSnapshots == { Actions({}), Actions({"jump"}), Actions({"left"}), Actions({"forward"}) }

RideTerrains == { Terrain(0, 0, Up), Terrain(5, Unit, Up) }

Ride == Run(RideDts, RideSnapshots, RideTerrains, MaxRideTicks)

NextRide == Ride

\* a longer ride, on and off flat ground: landings after a ride, a jump, a ledge
SpecRide == Init /\ [][NextRide]_vars

MaxFallTicks == 6

FallDts == {2 * Unit}

FallSnapshots == { Actions({}), Actions({"left"}), Actions({"backward"}) }

FallTerrains == { Terrain(0, 0, Up) }

Falling == Run(FallDts, FallSnapshots, FallTerrains, MaxFallTicks)

NextFall == Falling

\* the rider past the edge of the terrain: no ray hits anything
SpecFall == Init /\ [][NextFall]_vars

MaxLoadTicks == 2

LoadDts == {Unit \div 4}

LoadSnapshots == { Actions({}), Actions({"jump"}), Actions({"left"}) }

LoadTick == Run(LoadDts, LoadSnapshots, RideTerrains, MaxLoadTicks)

NextLoad == LoadTick \/ OnLoad \/ OnError

\* ticks, with the loader calling back (success or error) between any two
SpecLoad == Init /\ [][NextLoad]_vars

MaxChargeTicks == 9

\* the frame time of the run: a tenth or a quarter of a second
ChargeDts == {Unit \div 10, Unit \div 4}

ChargeSnapshots == { Actions({}), Actions({"jump"}) }

\* flat ground at the rider's height
ChargeTerrains == { Terrain(5, 0, Up) }

\* every tick of a run has the step of the first
Charging ==
    Run(IF ticks = 0 THEN ChargeDts ELSE {last.dt}, ChargeSnapshots, ChargeTerrains,
        MaxChargeTicks)

NextCharge == Charging

\* a rider on flat ground who holds and releases jump, at a fixed frame time
SpecCharge == Init /\ [][NextCharge]_vars

MaxContactTicks == 3

ContactDts == {0, Unit \div 10, Unit \div 4}

ContactSnapshots == { Actions({}), Actions({"jump"}) }

\* flat ground exactly snapDistance + 0.5 below the rider, flat ground just
\* out of that reach, no ground
ContactTerrains == { Terrain(5, Unit, Up), Terrain(5, Unit + 1, Up), Terrain(0, 0, Up) }

Contact == Run(ContactDts, ContactSnapshots, ContactTerrains, MaxContactTicks)

NextContact == Contact

\* the rider at the edge of the reach of the ground
SpecContact == Init /\ [][NextContact]_vars

MaxFlightTicks == 5

FlightDts == {0, Unit \div 4, 2 * Unit}

Flight == Run(FlightDts, ChargeSnapshots, ChargeTerrains, MaxFlightTicks)

NextFlight == Flight

\* jumps from flat ground and the flights that follow, down to the next jump
SpecFlight == Init /\ [][NextFlight]_vars

MaxSpinTicks == 2

SpinDts == {Unit \div 10, Unit \div 4}

\* the spin keys alone, with a turn key (the same side, the other side, both
\* turn keys, both spin keys), and under a flip
SpinSnapshots ==
    { Actions({"spinLeft"}), Actions({"left"}), Actions({"left", "spinLeft"}),
      Actions({"right", "spinRight"}), Actions({"left", "spinRight"}),
      Actions({"left", "right", "spinLeft"}), Actions({"right", "spinLeft", "spinRight"}),
      Actions({"forward", "left", "spinLeft"}) }

Spin == Run(SpinDts, SpinSnapshots, RideTerrains, MaxSpinTicks)

NextSpin == Spin

\* spins and flips, in the air and on flat ground
SpecSpin == Init /\ [][NextSpin]_vars

----------------------------------------------------------------------------
(* The claims.  Each is stated about the last tick: last.pre is the        *)
(* controller when update(dt) was called, last.mid the controller between  *)
(* handleInput and handlePhysics, last.phys the controller between         *)
(* handlePhysics and the roll blend, and the variables the controller when *)
(* update(dt) returned.                                                    *)

Ran == ticks > 0

\* the tick took the ground branch coming from the air: the landing
Landed == Ran /\ ~last.mid.grounded /\ grounded

\* handleInput released a charged jump during the tick
LaunchDue ==
    /\ Ran
    /\ ~last.actions.jump
    /\ last.pre.jumpCharge > 0
    /\ last.pre.grounded \/ last.pre.airTime < graceTime

AllMiss == \A i \in 1..5 : ~last.hits[i].hit

\* C1: after every tick (and between its two steps) jumpCharge lies in
\* [0, maxJumpCharge].
C1_JumpChargeInRange ==
    /\ 0 <= jumpCharge /\ jumpCharge <= maxJumpCharge
    /\ 0 <= last.mid.jumpCharge /\ last.mid.jumpCharge <= maxJumpCharge

\* the charge was cut at maxJumpCharge: without the cap it would have passed it
C1_Witness ==
    /\ Ran
    /\ last.actions.jump
    /\ last.pre.jumpCharge + (3 * last.dt) \div 2 > maxJumpCharge
    /\ last.pre.grounded \/ last.pre.airTime < graceTime
    /\ jumpCharge = maxJumpCharge

\* C2: a tick that starts grounded with charge c > 0 and jump not held leaves,
\* after handleInput, grounded = false, airTime = 1.0, jumpCharge = 0 and
\* velocity.y = max(old velocity.y, 0) + jumpForce * (0.8 + 1.5 c).
C2_Release ==
    Ran /\ last.pre.grounded /\ last.pre.jumpCharge > 0 /\ ~last.actions.jump
    => /\ ~last.mid.grounded
       /\ last.mid.airTime = Unit
       /\ last.mid.jumpCharge = 0
       /\ 10 * (last.mid.velocity.y - Max(last.pre.velocity.y, 0))
             = (jumpForce \div Unit) * (8 * Unit + 15 * last.pre.jumpCharge)

\* a grounded release by a rider sliding downhill (velocity.y < 0 is zeroed)
C2_Witness ==
    /\ Ran /\ last.pre.grounded /\ last.pre.jumpCharge > 0 /\ ~last.actions.jump
    /\ last.pre.velocity.y < 0
    /\ last.mid.velocity.y > 0

\* C3 as claimed: land() is called once on a tick that goes from airborne to
\* grounded and on no other tick, and after such a tick pitch = 0, roll = 0 and
\* airTime = 0.
C3_Original ==
    /\ Landed => last.phys.landCalls = 1 /\ pitch = 0 /\ roll = 0 /\ airTime = 0
    /\ Ran /\ ~Landed => last.phys.landCalls = 0

\* C3 as amended: land() is called once on a tick that goes from airborne to
\* grounded and on no other tick; after such a tick pitch = 0 and airTime = 0;
\* roll is 0 when handlePhysics ends and update then leans it from 0 toward
\* the lean target: roll = 5 dt * 0.5 * (left - right) when update returns,
\* which is 0 only if dt = 0 or left = right.
C3_Landing ==
    /\ Landed => /\ last.phys.landCalls = 1
                 /\ pitch = 0
                 /\ airTime = 0
                 /\ last.phys.roll = 0
                 /\ 2 * roll = (B2N(last.actions.left) - B2N(last.actions.right)) * 5 * last.dt
    /\ Ran /\ ~Landed => last.phys.landCalls = 0

\* a landing of a rider who was rolled, with a lean key held
C3_Witness ==
    /\ Landed
    /\ last.mid.roll # 0
    /\ last.actions.left
    /\ roll # 0

\* a landing of a rider who was pitched
C3_WitnessPitch == Landed /\ last.mid.pitch # 0 /\ pitch = 0

\* C4: a landing whose trick result has points = 0 changes neither score nor
\* the last trick name, whatever name the result carries.
C4_ZeroPoints ==
    Ran /\ last.phys.landCalls > 0 /\ last.trick.points = 0
    => score = last.pre.score /\ lastTruncName = last.pre.lastTruncName

\* a zero-point result with a name, after a trick that scored
C4_Witness ==
    /\ Landed
    /\ last.trick.points = 0
    /\ last.trick.name # ""
    /\ last.pre.lastTruncName # ""
    /\ last.pre.score > 0

\* C5: score never decreases over a tick, and changes only on a tick that goes
\* from airborne to grounded.
C5_Score ==
    Ran => /\ score >= last.pre.score
           /\ score # last.pre.score => Landed

\* a second scoring landing, for fewer points than the score so far
C5_Witness ==
    Landed /\ score > last.pre.score /\ last.pre.score > last.trick.points

\* C6: on a tick where all five rays miss, the rider ends the tick ungrounded.
C6_NoHitsUngrounded == Ran /\ AllMiss => ~grounded

\* C7 as claimed: update(0) leaves position, velocity, heading and score
\* unchanged.
C7_Original ==
    Ran /\ last.dt = 0
    => /\ position = last.pre.position
       /\ velocity = last.pre.velocity
       /\ heading = last.pre.heading
       /\ score = last.pre.score

\* C7 as amended: update(0) leaves heading unchanged; it leaves score unchanged
\* unless the tick lands; it leaves position and velocity unchanged when the
\* tick releases no jump and takes the air branch (a release adds the launch
\* force, and the ground branch snaps position.y to the ground and works on
\* the velocity).
C7_ZeroStep ==
    Ran /\ last.dt = 0
    => /\ heading = last.pre.heading
       /\ ~Landed => score = last.pre.score
       /\ ~LaunchDue /\ ~grounded => position = last.pre.position /\ velocity = last.pre.velocity

\* update(0) in the air by a moving rider, keys held
C7_Witness ==
    /\ Ran /\ last.dt = 0 /\ ~grounded /\ ~LaunchDue
    /\ last.pre.velocity.y # 0
    /\ last.actions.left \/ last.actions.forward

\* C8: on a tick that starts airborne with jump held, jumpCharge grows by
\* 1.5 dt (capped) if airTime < 0.25 when the tick starts, and is 0 after the
\* tick if airTime is outside that window.
C8_GraceWindow ==
    Ran /\ ~last.pre.grounded /\ last.actions.jump
    => IF last.pre.airTime < graceTime
       THEN jumpCharge = Min(last.pre.jumpCharge + (3 * last.dt) \div 2, maxJumpCharge)
       ELSE jumpCharge = 0

C9_WitnessLand == Landed /\ ~last.pre.grounded /\ last.phys.updateCalls = 1

\* C10: trickSystem.startJump is called once on a tick that releases a charged
\* jump (jump not held, jumpCharge > 0, grounded or airTime < 0.25) and on no
\* other tick.
C10_StartJumpCalls ==
    Ran => last.phys.startJumpCalls = IF LaunchDue THEN 1 ELSE 0

\* a charge cleared past the grace window, with jump not held: no call
C10_Witness ==
    /\ Ran
    /\ ~last.actions.jump
    /\ last.pre.jumpCharge > 0
    /\ jumpCharge = 0
    /\ last.phys.startJumpCalls = 0

C10_WitnessLaunch == LaunchDue /\ last.phys.startJumpCalls = 1

\* a tick that starts airborne with forward held and neither left nor right
FrontFlip == Ran /\ ~last.pre.grounded /\ last.actions.forward
             /\ ~last.actions.left /\ ~last.actions.right

\* C11 as claimed: on a tick that starts airborne with forward held and
\* neither left nor right, the trick system is told a rotationDelta of 0,
\* heading is unchanged by the tick and pitch is 5.0 dt lower after the tick.
C11_Original ==
    FrontFlip => /\ last.phys.updateCalls = 1 /\ last.phys.updateArg = 0
                 /\ heading = last.pre.heading
                 /\ pitch = last.pre.pitch - 5 * last.dt

\* C11 as amended: on such a tick the trick system is told a rotationDelta of
\* 0, heading is unchanged by the tick, and handleInput lowers pitch by
\* exactly 5.0 dt; pitch is still that when update returns unless the tick
\* lands, and a landing resets it to 0.
C11_FrontFlip ==
    FrontFlip => /\ last.phys.updateCalls = 1 /\ last.phys.updateArg = 0
                 /\ heading = last.pre.heading
                 /\ last.mid.pitch = last.pre.pitch - 5 * last.dt
                 /\ pitch = IF grounded THEN 0 ELSE last.pre.pitch - 5 * last.dt

\* a second tick of front flip in the air, the rider already pitched
C11_Witness ==
    /\ FrontFlip /\ last.dt > 0 /\ ~grounded
    /\ last.pre.pitch < 0
    /\ pitch < last.pre.pitch

\* a front flip on the tick that lands
C11_WitnessLanding == FrontFlip /\ last.dt > 0 /\ grounded /\ last.mid.pitch < 0

\* a grounded tick that releases a charge
GroundRelease == Ran /\ last.pre.grounded /\ last.pre.jumpCharge > 0 /\ ~last.actions.jump

C12_WitnessRelease ==
    /\ GroundRelease /\ last.dt = Unit \div 10
    /\ last.pre.jumpCharge = (3 * Unit) \div 4
    /\ last.mid.velocity.y = (1925 * Unit) \div 100

\* the charge held past the cap
C12_WitnessCap == held > 0 /\ (held * 3 * last.dt) \div 2 > maxJumpCharge /\ jumpCharge = maxJumpCharge

\* distToGround of the last tick's handlePhysics
DistToGround == last.mid.position.y - ProbeGround(last.hits).groundHeight

\* C13: after every tick grounded is true if and only if, when handlePhysics
\* started, position.y - groundHeight <= 1.0 and velocity.y <= 0.1, whatever
\* grounded was before.
C13_Classified ==
    Ran => (grounded <=> DistToGround <= Unit /\ last.mid.velocity.y <= Unit \div 10)

\* a rider airborne exactly 1.0 above the ground, not rising: classified
\* grounded
C13_Witness ==
    /\ Ran /\ ~last.pre.grounded /\ DistToGround = Unit
    /\ last.mid.velocity.y <= Unit \div 10 /\ grounded

\* a grounded rider, the ground just out of reach: classified airborne
C13_WitnessOutOfReach ==
    /\ Ran /\ last.pre.grounded /\ last.mid.grounded /\ DistToGround = Unit + 1
    /\ last.mid.velocity.y <= Unit \div 10 /\ ~grounded

\* a rider in reach of the ground but rising: classified airborne, from the
\* ground and from the air
C13_WitnessRising ==
    /\ Ran /\ DistToGround <= Unit /\ last.mid.velocity.y > Unit \div 10 /\ ~grounded
    /\ ~last.pre.grounded

C13_WitnessGroundedRising ==
    /\ Ran /\ DistToGround <= Unit /\ last.mid.velocity.y > Unit \div 10 /\ ~grounded
    /\ last.mid.grounded

\* the calls the trick system had received when the last tick started
PreCalls == SubSeq(calls, 1, Len(calls) - Len(TrickCalls(last.phys)))

\* the last tick started in a flight that a launch began: startJump() was the
\* last call, no landing since
AfterLaunch == Ran /\ PreCalls # <<>> /\ PreCalls[Len(PreCalls)] = "startJump"

\* C14: from a launch to the next tick that ends grounded, that tick
\* included, jumpCharge is 0 after handleInput and after the tick and
\* startJump() is not called again, whatever the jump action is; airTime is
\* at least 1.0 all along the flight.
C14_NoRelaunch ==
    /\ calls # <<>> /\ calls[Len(calls)] = "startJump"
       => ~grounded /\ jumpCharge = 0 /\ airTime >= Unit
    /\ AfterLaunch
       => /\ ~last.pre.grounded
          /\ last.mid.jumpCharge = 0 /\ jumpCharge = 0
          /\ last.phys.startJumpCalls = 0

\* a tick of the flight with jump held, and one with jump released
C14_Witness == AfterLaunch /\ last.actions.jump /\ last.dt > 0 /\ ~grounded

C14_WitnessReleased == AfterLaunch /\ ~last.actions.jump /\ ~grounded

\* the tick that ends the flight, jump held
C14_WitnessLanding == AfterLaunch /\ last.actions.jump /\ grounded

\* C15: airTime is never negative; over a tick that ends airborne it does not
\* decrease (it drops only on a tick that ends grounded); a release in the
\* coyote-time window raises it to 1.0 and the air branch then adds dt.
C15_AirTime ==
    Ran => /\ airTime >= 0
           /\ ~grounded => airTime >= last.pre.airTime
           /\ LaunchDue /\ ~last.pre.grounded
              => last.mid.airTime = Unit /\ airTime = Unit + last.dt

\* a release in the window by a rider who has been in the air for a while
C15_Witness ==
    /\ LaunchDue /\ ~last.pre.grounded /\ last.pre.airTime > 0
    /\ ~grounded /\ airTime > last.pre.airTime

\* two ticks in a row that end airborne, no release, a frame that takes time
C15_WitnessAir ==
    /\ Ran /\ ~last.pre.grounded /\ ~LaunchDue /\ ~grounded /\ last.dt > 0
    /\ last.pre.airTime > 0 /\ airTime > last.pre.airTime

\* the drop, on a tick that ends grounded
C15_WitnessDrop == Ran /\ grounded /\ airTime < last.pre.airTime

\* lines 143-144: the boost of a spin key, spinLeft first
SpinBoost(a) == IF a.spinLeft THEN 2 ELSE IF a.spinRight THEN -2 ELSE 0

\* C16: on a tick in which trickSystem.update is called, the rotationDelta it
\* receives is the change of heading over the tick: 0 when forward or
\* backward is held or neither left nor right is, and
\* 2 * (left - right + boost) * turnSpeed * dt otherwise, the boost being +2.0
\* for spinLeft and -2.0 for spinRight.
C16_RotationDelta ==
    Ran /\ last.phys.updateCalls > 0
    => /\ last.phys.updateArg = heading - last.pre.heading
       /\ last.phys.updateArg =
              IF last.actions.forward \/ last.actions.backward
                 \/ ~(last.actions.left \/ last.actions.right)
              THEN 0
              ELSE 2 * (B2N(last.actions.left) - B2N(last.actions.right)
                        + SpinBoost(last.actions)) * (turnSpeed \div Unit) * last.dt

\* a spin against the turn key: left with spinRight turns right
C16_Witness ==
    /\ Ran /\ last.phys.updateCalls > 0
    /\ last.actions.left /\ last.actions.spinRight
    /\ heading < last.pre.heading

\* a spin key alone: no rotation
C16_WitnessSpinKeyAlone ==
    /\ Ran /\ last.phys.updateCalls > 0 /\ last.actions.spinLeft /\ ~last.actions.left
    /\ ~last.actions.right /\ last.pre.heading # 0 /\ heading = last.pre.heading

\* turn and spin keys under a flip: no rotation
C16_WitnessFlip ==
    /\ Ran /\ last.phys.updateCalls > 0 /\ last.actions.forward /\ last.actions.left
    /\ last.actions.spinLeft /\ heading = last.pre.heading

\* both turn keys with a boost: the boost alone rotates
C16_WitnessBothTurnKeys ==
    /\ Ran /\ last.phys.updateCalls > 0 /\ last.actions.left /\ last.actions.right
    /\ heading = last.pre.heading + 4 * (turnSpeed \div Unit) * last.dt

\* what the physics works on: the controller without its cosmetic fields
Motion(s) ==
    <<s.position, s.velocity, s.heading, s.pitch, s.grounded, s.airTime,
      s.jumpCharge, s.score>>

\* the controller s with another body and another roll
Cosmetics(s) ==
    { [s EXCEPT !.body = b, !.roll = r] :
          b \in {"none", "model", "placeholder"}, r \in {0, Unit \div 2, -Unit} }

\* the last tick run again from the controller v
Rerun(v) ==
    RollStep(HandlePhysics(HandleInput(v, last.actions, last.dt),
                           last.actions, last.dt, last.hits, last.trick),
             last.actions, last.dt)

\* C17: the cosmetic state does not reach the physics.  The last tick, run
\* again on the same inputs from a controller that differs from the one it
\* started from only in its body (none yet, the model, the placeholder) and
\* its roll, ends with the position, velocity, heading, pitch, grounded,
\* airTime, jumpCharge and score the controller has now, the loader having
\* called back or not since; by induction on the ticks, two runs on the same
\* inputs agree on these fields after every tick.
C17_CosmeticsApart ==
    Ran => \A v \in Cosmetics(last.pre) : Motion(Rerun(v)) = Motion(Self)

\* a tick of a rolled rider with the model loaded that squashes the body
C17_Witness ==
    /\ Ran /\ last.pre.body = "model" /\ last.pre.roll # 0
    /\ last.actions.jump /\ bodyScaleY # last.pre.bodyScaleY

\* the loader failing after a tick that ran without a body
C17_WitnessLate == Ran /\ last.pre.body = "none" /\ body = "placeholder" /\ jumpCharge > 0

\* C18: whenever update returns with grounded = true, airTime = 0 and
\* pitch = 0; so a tick that starts grounded starts with pitch = 0, and the
\* pitch decay of handleInput's grounded branch leaves it 0.
C18_GroundedLevel ==
    /\ grounded => airTime = 0 /\ pitch = 0
    /\ Ran /\ last.pre.grounded => last.pre.pitch = 0 /\ last.mid.pitch = 0

\* a flip key held through a tick on the ground
C18_Witness ==
    /\ Ran /\ last.pre.grounded /\ grounded /\ last.actions.forward /\ last.dt > 0
    /\ pitch = 0

\* a flip key held through the landing of a pitched rider
C18_WitnessLanding ==
    /\ Landed /\ last.actions.forward /\ last.pre.pitch < 0 /\ last.mid.pitch < last.pre.pitch
    /\ pitch = 0

\* C19: between any two startJump() calls the trick system receives a
\* land() call: no startJump() follows a startJump() directly.
C19_LandBetweenJumps ==
    \A i \in 1..(Len(calls) - 1) : ~(calls[i] = "startJump" /\ calls[i + 1] = "startJump")

\* a jump, its landing, the next jump
C19_Witness ==
    \E i \in 1..(Len(calls) - 2) :
        calls[i] = "startJump" /\ calls[i + 1] = "land" /\ calls[i + 2] = "startJump"

\* the converse fails: the first landing, from the constructor's airborne
\* start, and two landings with no jump between them
C19_WitnessFirstLanding == calls # <<>> /\ calls[1] = "land"

C19_WitnessTwoLandings ==
    \E i \in 1..(Len(calls) - 1) : calls[i] = "land" /\ calls[i + 1] = "land"

\* C20: a tick in which a jump is launched ends airborne, wherever the ground
\* is: after the launch velocity.y >= 0.8 jumpForce > 0.1, handlePhysics takes
\* the air branch, grounded is false and airTime = 1.0 + dt when update
\* returns, and land() is not called.
C20_LaunchEndsAirborne ==
    Ran /\ last.mid.startJumpCalls > 0
    => /\ 10 * last.mid.velocity.y >= 8 * jumpForce
       /\ ~grounded
       /\ airTime = Unit + last.dt
       /\ last.phys.landCalls = 0

\* a launch from the ground, the ground within snapDistance + 0.5
C20_Witness ==
    /\ Ran /\ last.mid.startJumpCalls > 0 /\ last.pre.grounded
    /\ DistToGround <= Unit /\ ~grounded

\* a launch in the coyote-time window by a falling rider, the ground within
\* snapDistance + 0.5: without the launch the tick would have landed
C20_WitnessCoyote ==
    /\ Ran /\ last.mid.startJumpCalls > 0 /\ ~last.pre.grounded
    /\ last.pre.velocity.y < 0
    /\ DistToGround <= Unit /\ ~grounded

====
